---- MODULE Spec2Model ----
(***************************************************************************)
(* MealPrep: the rule-filtering engine of archive/rules.py and the         *)
(* remove-dates script of applications/remove_dates_from_diary.py.         *)
(*                                                                         *)
(* A date is a day number; day 0 stands for Friday 2024-01-05.  A meal     *)
(* dictionary is a function from meal names to their meal_info.            *)
(***************************************************************************)
EXTENDS Integers, FiniteSets, Sequences, TLC

VARIABLES
    meals,             \* the running candidate meal dictionary
    date,              \* the date a meal is being chosen for
    combined_history,  \* date -> meal name, past entries and recommendations
    project_diary,     \* the persisted project diary, date -> meal name
    today,             \* dt.date.today()
    pc,                \* position of the remove-dates script
    meal_diary,        \* the script's meal_diary
    min_printed_date,  \* the script's min_printed_date
    max_printed_date,  \* the script's max_printed_date (Nothing when no next date)
    printed_diary,     \* the script's printed_diary
    dates_to_remove    \* the script's dates_to_remove (Nothing when cancelled)

ruleVars == <<meals, date, combined_history>>
diaryVars == <<project_diary, today, pc, meal_diary, min_printed_date,
               max_printed_date, printed_diary, dates_to_remove>>
vars == <<meals, date, combined_history, project_diary, today, pc,
          meal_diary, min_printed_date, max_printed_date, printed_diary,
          dates_to_remove>>

None == "None"

\* A variable that holds a value or Python's None: <<v>> or <<>>.
Nothing == <<>>
Some(v) == <<v>>
Value(o) == o[1]

(***************************************************************************)
(* Bounds of the model.                                                    *)
(***************************************************************************)
MaxDate == 19        \* history dates are the days 0..MaxDate
MaxDiaryDate == 22   \* diary dates are the days 0..MaxDiaryDate
MaxRemoved == 2      \* dates the user enters at the prompt

(***************************************************************************)
(* The meal catalog: the metadata the rules look up by meal name.          *)
(***************************************************************************)
Catalog ==
    [n \in {"Lasagne", "Moussaka", "Roast Chicken", "Chicken Curry",
            "Fish Pie", "Spaghetti"} |->
        CASE n = "Lasagne" ->
               [protein |-> "beef", favourite |-> FALSE, fish |-> FALSE,
                pasta |-> TRUE, roast |-> FALSE, time_consuming |-> TRUE]
          [] n = "Moussaka" ->
               [protein |-> "lamb", favourite |-> TRUE, fish |-> FALSE,
                pasta |-> FALSE, roast |-> FALSE, time_consuming |-> TRUE]
          [] n = "Roast Chicken" ->
               [protein |-> "chicken", favourite |-> TRUE, fish |-> FALSE,
                pasta |-> FALSE, roast |-> TRUE, time_consuming |-> FALSE]
          [] n = "Chicken Curry" ->
               [protein |-> "chicken", favourite |-> FALSE, fish |-> FALSE,
                pasta |-> FALSE, roast |-> FALSE, time_consuming |-> FALSE]
          [] n = "Fish Pie" ->
               [protein |-> "fish", favourite |-> FALSE, fish |-> TRUE,
                pasta |-> FALSE, roast |-> FALSE, time_consuming |-> FALSE]
          [] n = "Spaghetti" ->
               [protein |-> None, favourite |-> TRUE, fish |-> FALSE,
                pasta |-> TRUE, roast |-> FALSE, time_consuming |-> FALSE]]

Names == DOMAIN Catalog

get_protein(name) == Catalog[name].protein
is_favourite(name) == Catalog[name].favourite
is_fish(name) == Catalog[name].fish
is_pasta(name) == Catalog[name].pasta
is_roast(name) == Catalog[name].roast
is_time_consuming(name) == Catalog[name].time_consuming

\* date.weekday(): Monday is 0 and Sunday is 6; day 0 is a Friday.
weekday(d) == (d + 4) % 7

Abs(x) == IF x < 0 THEN -x ELSE x

\* The names of the history meals within n_days of the date, either side.
get_close_history_meal_names(history, d, n_days) ==
    {history[h] : h \in {x \in DOMAIN history : Abs(x - d) <= n_days}}

\* {name: meal_info for name, meal_info in meals.items() if name in keep}
Comprehension(m, keep) == [n \in (DOMAIN m) \cap keep |-> m[n]]

\* Variant: the None check of line 60 left out.
not_consecutive_same_protein_with_none(m, d, history) ==
    LET relevant_meal_names == get_close_history_meal_names(history, d, 1)
        proteins_to_avoid == {get_protein(x) : x \in relevant_meal_names}
    IN  Comprehension(m, {n \in DOMAIN m :
                              get_protein(n) \notin proteins_to_avoid})

not_consecutive_same_protein(m, d, history) ==
    LET relevant_meal_names == get_close_history_meal_names(history, d, 1)
        proteins_to_avoid ==
            {get_protein(x) : x \in {y \in relevant_meal_names :
                                        get_protein(y) # None}}
    IN  Comprehension(m, {n \in DOMAIN m :
                              get_protein(n) \notin proteins_to_avoid})

not_within_seven_days(m, d, history) ==
    LET relevant_meal_names == get_close_history_meal_names(history, d, 7)
    IN  Comprehension(m, {n \in DOMAIN m : n \notin relevant_meal_names})

\* Variant: the window of not_within_seven_days, n_days=7.
not_non_favourite_within_seven_days(m, d, history) ==
    LET relevant_meal_names == get_close_history_meal_names(history, d, 7)
    IN  Comprehension(m, {n \in DOMAIN m :
                              is_favourite(n) \/ n \notin relevant_meal_names})

not_non_favourite_within_fourteen_days(m, d, history) ==
    LET relevant_meal_names == get_close_history_meal_names(history, d, 14)
    IN  Comprehension(m, {n \in DOMAIN m :
                              is_favourite(n) \/ n \notin relevant_meal_names})

\* Variant: deletes the first pasta candidate found and stops.
not_pasta_within_five_days_first_only(m, d, history) ==
    LET relevant_meal_names == get_close_history_meal_names(history, d, 5)
        pasta_meals == {n \in DOMAIN m : is_pasta(n)}
    IN  IF (\E x \in relevant_meal_names : is_pasta(x)) /\ pasta_meals # {}
        THEN Comprehension(m, (DOMAIN m) \ {CHOOSE n \in pasta_meals : TRUE})
        ELSE m

not_pasta_within_five_days(m, d, history) ==
    LET relevant_meal_names == get_close_history_meal_names(history, d, 5)
    IN  IF \E x \in relevant_meal_names : is_pasta(x)
        THEN Comprehension(m, {n \in DOMAIN m : ~is_pasta(n)})
        ELSE m

\* Variant: the roasts are taken from the catalog, not from the candidates.
force_sunday_roast_from_catalog(m, d, history) ==
    IF weekday(d) # 6
    THEN m
    ELSE [n \in {x \in Names : is_roast(x)} |-> Catalog[n]]

\* Variant: the candidates are kept when no roast is among them.
force_sunday_roast_or_keep(m, d, history) ==
    IF weekday(d) # 6
    THEN m
    ELSE LET roasts == Comprehension(m, {n \in DOMAIN m : is_roast(n)})
         IN  IF DOMAIN roasts = {} THEN m ELSE roasts

\* Variant: Sunday taken as 7, as date.isoweekday() numbers it.
force_sunday_roast_isoweekday(m, d, history) ==
    IF weekday(d) # 7
    THEN m
    ELSE Comprehension(m, {n \in DOMAIN m : is_roast(n)})

force_sunday_roast(m, d, history) ==
    IF weekday(d) # 6
    THEN m
    ELSE Comprehension(m, {n \in DOMAIN m : is_roast(n)})

not_roast_on_non_sunday(m, d, history) ==
    IF weekday(d) = 6
    THEN m
    ELSE Comprehension(m, {n \in DOMAIN m : ~is_roast(n)})

\* Variant: any() runs over the candidates, not over the history names.
not_fish_within_seven_days_of_candidates(m, d, history) ==
    IF \E x \in DOMAIN m : is_fish(x)
    THEN Comprehension(m, {n \in DOMAIN m : ~is_fish(n)})
    ELSE m

not_fish_within_seven_days(m, d, history) ==
    LET relevant_meal_names == get_close_history_meal_names(history, d, 7)
    IN  IF \E x \in relevant_meal_names : is_fish(x)
        THEN Comprehension(m, {n \in DOMAIN m : ~is_fish(n)})
        ELSE m

not_time_consuming_on_weekend(m, d, history) ==
    IF weekday(d) \notin {5, 6}
    THEN m
    ELSE Comprehension(m, {n \in DOMAIN m : ~is_time_consuming(n)})

\* Variant: the second check is an elif of the first.
not_lasagne_and_moussaka_elif(m, d, history) ==
    LET relevant_meal_names == get_close_history_meal_names(history, d, 7)
    IN  IF "Moussaka" \in relevant_meal_names
        THEN Comprehension(m, {n \in DOMAIN m : n # "Lasagne"})
        ELSE IF "Lasagne" \in relevant_meal_names
             THEN Comprehension(m, {n \in DOMAIN m : n # "Moussaka"})
             ELSE m

not_lasagne_and_moussaka_within_seven_days(m, d, history) ==
    LET relevant_meal_names == get_close_history_meal_names(history, d, 7)
        m1 == IF "Moussaka" \in relevant_meal_names
              THEN Comprehension(m, {n \in DOMAIN m : n # "Lasagne"})
              ELSE m
    IN  IF "Lasagne" \in relevant_meal_names
        THEN Comprehension(m1, {n \in DOMAIN m1 : n # "Moussaka"})
        ELSE m1

Rules == {"not_consecutive_same_protein", "not_within_seven_days",
          "not_non_favourite_within_fourteen_days",
          "not_pasta_within_five_days", "force_sunday_roast",
          "not_roast_on_non_sunday", "not_fish_within_seven_days",
          "not_time_consuming_on_weekend",
          "not_lasagne_and_moussaka_within_seven_days"}

\* rule(meals, date, combined_history), the common interface of the rules.
ApplyRule(r, m, d, history) ==
    CASE r = "not_consecutive_same_protein" ->
           not_consecutive_same_protein(m, d, history)
      [] r = "not_within_seven_days" -> not_within_seven_days(m, d, history)
      [] r = "not_non_favourite_within_fourteen_days" ->
           not_non_favourite_within_fourteen_days(m, d, history)
      [] r = "not_pasta_within_five_days" ->
           not_pasta_within_five_days(m, d, history)
      [] r = "force_sunday_roast" -> force_sunday_roast(m, d, history)
      [] r = "not_roast_on_non_sunday" -> not_roast_on_non_sunday(m, d, history)
      [] r = "not_fish_within_seven_days" ->
           not_fish_within_seven_days(m, d, history)
      [] r = "not_time_consuming_on_weekend" ->
           not_time_consuming_on_weekend(m, d, history)
      [] r = "not_lasagne_and_moussaka_within_seven_days" ->
           not_lasagne_and_moussaka_within_seven_days(m, d, history)


\* The rules in the order the source defines them.
RuleOrder ==
    <<"not_consecutive_same_protein", "not_within_seven_days",
      "not_non_favourite_within_fourteen_days", "not_pasta_within_five_days",
      "force_sunday_roast", "not_roast_on_non_sunday",
      "not_fish_within_seven_days", "not_time_consuming_on_weekend",
      "not_lasagne_and_moussaka_within_seven_days">>

\* The candidates threaded through the rules of order, first to last.
RECURSIVE Thread(_, _, _, _)
Thread(order, m, d, history) ==
    IF order = <<>>
    THEN m
    ELSE Thread(Tail(order), ApplyRule(Head(order), m, d, history), d, history)

(***************************************************************************)
(* The rule pipeline: the candidates start as the full catalog and each    *)
(* action applies one rule to the running candidates.  A combined history  *)
(* holds no entry, one entry or two entries on the days 0..MaxDate.        *)
(***************************************************************************)
Dates == 0..MaxDate
TargetDates == {15, 16, 17}   \* a Saturday, a Sunday and a Monday

CatalogMeals == [n \in Names |-> Catalog[n]]

EmptyDiary == [d \in {} |-> None]

Entry(d, n) == [x \in {d} |-> n]

Histories ==
    {EmptyDiary}
    \cup {Entry(d, n) : d \in Dates, n \in Names}
    \cup UNION {{Entry(d1, n1) @@ Entry(d2, n2) : n1 \in Names, n2 \in Names} :
                   d1 \in Dates, d2 \in Dates}

InitRules ==
    /\ meals = CatalogMeals
    /\ date \in TargetDates
    /\ combined_history \in Histories
    /\ project_diary = EmptyDiary
    /\ today = 0
    /\ pc = "idle"
    /\ meal_diary = EmptyDiary
    /\ min_printed_date = Nothing
    /\ max_printed_date = Nothing
    /\ printed_diary = EmptyDiary
    /\ dates_to_remove = Nothing

NotConsecutiveSameProtein ==
    /\ meals' = not_consecutive_same_protein(meals, date, combined_history)
    /\ UNCHANGED <<date, combined_history>>
    /\ UNCHANGED diaryVars

NotWithinSevenDays ==
    /\ meals' = not_within_seven_days(meals, date, combined_history)
    /\ UNCHANGED <<date, combined_history>>
    /\ UNCHANGED diaryVars

NotNonFavouriteWithinFourteenDays ==
    /\ meals' = not_non_favourite_within_fourteen_days(meals, date, combined_history)
    /\ UNCHANGED <<date, combined_history>>
    /\ UNCHANGED diaryVars

NotPastaWithinFiveDays ==
    /\ meals' = not_pasta_within_five_days(meals, date, combined_history)
    /\ UNCHANGED <<date, combined_history>>
    /\ UNCHANGED diaryVars

ForceSundayRoast ==
    /\ meals' = force_sunday_roast(meals, date, combined_history)
    /\ UNCHANGED <<date, combined_history>>
    /\ UNCHANGED diaryVars

NotRoastOnNonSunday ==
    /\ meals' = not_roast_on_non_sunday(meals, date, combined_history)
    /\ UNCHANGED <<date, combined_history>>
    /\ UNCHANGED diaryVars

NotFishWithinSevenDays ==
    /\ meals' = not_fish_within_seven_days(meals, date, combined_history)
    /\ UNCHANGED <<date, combined_history>>
    /\ UNCHANGED diaryVars

NotTimeConsumingOnWeekend ==
    /\ meals' = not_time_consuming_on_weekend(meals, date, combined_history)
    /\ UNCHANGED <<date, combined_history>>
    /\ UNCHANGED diaryVars

NotLasagneAndMoussakaWithinSevenDays ==
    /\ meals' = not_lasagne_and_moussaka_within_seven_days(meals, date, combined_history)
    /\ UNCHANGED <<date, combined_history>>
    /\ UNCHANGED diaryVars

NextRules ==
    \/ NotConsecutiveSameProtein
    \/ NotWithinSevenDays
    \/ NotNonFavouriteWithinFourteenDays
    \/ NotPastaWithinFiveDays
    \/ ForceSundayRoast
    \/ NotRoastOnNonSunday
    \/ NotFishWithinSevenDays
    \/ NotTimeConsumingOnWeekend
    \/ NotLasagneAndMoussakaWithinSevenDays

Spec == InitRules /\ [][NextRules]_vars

(***************************************************************************)
(* The remove-dates script.                                                *)
(***************************************************************************)
MAX_PRINTED_PREVIOUS_DIARY_ENTRIES == 15
MAX_PRINTED_NEXT_DIARY_ENTRIES == 5

Min(a, b) == IF a < b THEN a ELSE b

\* sorted(S): the dates of S in increasing order.
RECURSIVE sorted(_)
sorted(S) ==
    IF S = {}
    THEN <<>>
    ELSE LET lo == CHOOSE x \in S : \A y \in S : x <= y
         IN  <<lo>> \o sorted(S \ {lo})

\* list[i] is in range: Python counts a negative index from the end.
IndexInRange(list, i) ==
    IF i < 0 THEN -i <= Len(list) ELSE i < Len(list)

\* list[i] of a Python list, for an index in range.
PyIndex(list, i) ==
    IF i < 0 THEN list[Len(list) + i + 1] ELSE list[i + 1]

\* MealDiary.filter_dates: the entries from min_date on, up to max_date when
\* one is given; max_date itself is kept or not according to inclusive.
filter_dates(diary, min_date, max_date, inclusive) ==
    LET keep == {d \in DOMAIN diary :
                    /\ min_date <= d
                    /\ \/ max_date = Nothing
                       \/ d < Value(max_date)
                       \/ inclusive /\ d = Value(max_date)}
    IN  [d \in keep |-> diary[d]]

\* MealDiary.except_dates: the diary without the given dates.
except_dates(diary, dates) == [d \in (DOMAIN diary) \ dates |-> diary[d]]

\* The diaries the script is run on: an entry on each day of a stretch of
\* days, the day two days before today possibly without one.
MealOn(d) == IF d % 2 = 0 THEN "Lasagne" ELSE "Moussaka"
DiaryDates == 0..MaxDiaryDate
Todays == {17}
Diaries ==
    {EmptyDiary}
    \cup {[d \in (lo..hi) \ gap |-> MealOn(d)] :
             lo \in DiaryDates, hi \in DiaryDates, gap \in {{}, {15}}}

InitDiary ==
    /\ project_diary \in Diaries
    /\ today \in Todays
    /\ pc = "start"
    /\ meal_diary = EmptyDiary
    /\ min_printed_date = Nothing
    /\ max_printed_date = Nothing
    /\ printed_diary = EmptyDiary
    /\ dates_to_remove = Nothing
    /\ meals = CatalogMeals
    /\ date = 15
    /\ combined_history = EmptyDiary

\* Lines 18-31 when previous_dates[-(n_previous_dates_printed-1)] is in range.
ComputeWindow ==
    /\ pc = "start"
    /\ meal_diary' = project_diary
    /\ LET prev == sorted({x \in DOMAIN project_diary : x < today})
           nxt == sorted({x \in DOMAIN project_diary : x >= today})
           n_prev == Min(Len(prev), MAX_PRINTED_PREVIOUS_DIARY_ENTRIES)
           n_nxt == Min(Len(nxt), MAX_PRINTED_NEXT_DIARY_ENTRIES)
       IN  /\ IndexInRange(prev, -(n_prev - 1))
           /\ min_printed_date' = Some(PyIndex(prev, -(n_prev - 1)))
           /\ max_printed_date' =
                  IF nxt # <<>> THEN Some(PyIndex(nxt, n_nxt - 1)) ELSE Nothing
           /\ \E inclusive \in BOOLEAN :
                  printed_diary' = filter_dates(project_diary,
                                                Value(min_printed_date'),
                                                max_printed_date', inclusive)
    /\ pc' = "prompt"
    /\ UNCHANGED <<project_diary, today, dates_to_remove>>
    /\ UNCHANGED ruleVars

\* Lines 18-22 when the index is out of range: the script ends on IndexError.
ComputeWindowRaises ==
    /\ pc = "start"
    /\ meal_diary' = project_diary
    /\ LET prev == sorted({x \in DOMAIN project_diary : x < today})
           n_prev == Min(Len(prev), MAX_PRINTED_PREVIOUS_DIARY_ENTRIES)
       IN  ~IndexInRange(prev, -(n_prev - 1))
    /\ pc' = "raised"
    /\ UNCHANGED <<project_diary, today, min_printed_date, max_printed_date,
                   printed_diary, dates_to_remove>>
    /\ UNCHANGED ruleVars

\* Lines 33-39: the user enters some of the printed dates, or cancels.
GetInputs ==
    /\ pc = "prompt"
    /\ \/ dates_to_remove' = Nothing
       \/ \E S \in SUBSET (DOMAIN printed_diary) :
              /\ Cardinality(S) <= MaxRemoved
              /\ dates_to_remove' = Some(S)
    /\ pc' = "entered"
    /\ UNCHANGED <<project_diary, today, meal_diary, min_printed_date,
                   max_printed_date, printed_diary>>
    /\ UNCHANGED ruleVars

\* Lines 40-41: exit() when the input is None.
Cancel ==
    /\ pc = "entered"
    /\ dates_to_remove = Nothing
    /\ pc' = "exited"
    /\ UNCHANGED <<project_diary, today, meal_diary, min_printed_date,
                   max_printed_date, printed_diary, dates_to_remove>>
    /\ UNCHANGED ruleVars

\* Variant: the printed diary is written back instead of the whole diary.
RemoveDatesWritesPrinted ==
    /\ pc = "entered"
    /\ dates_to_remove # Nothing
    /\ printed_diary' = except_dates(printed_diary, Value(dates_to_remove))
    /\ meal_diary' = except_dates(meal_diary, Value(dates_to_remove))
    /\ project_diary' = printed_diary'
    /\ pc' = "done"
    /\ UNCHANGED <<today, min_printed_date, max_printed_date, dates_to_remove>>
    /\ UNCHANGED ruleVars

\* Lines 43-52: the dates are removed and the diary is written back.
RemoveDates ==
    /\ pc = "entered"
    /\ dates_to_remove # Nothing
    /\ printed_diary' = except_dates(printed_diary, Value(dates_to_remove))
    /\ meal_diary' = except_dates(meal_diary, Value(dates_to_remove))
    /\ project_diary' = meal_diary'
    /\ pc' = "done"
    /\ UNCHANGED <<today, min_printed_date, max_printed_date, dates_to_remove>>
    /\ UNCHANGED ruleVars

NextDiary ==
    \/ ComputeWindow
    \/ ComputeWindowRaises
    \/ GetInputs
    \/ Cancel
    \/ RemoveDates

SpecDiary == InitDiary /\ [][NextDiary]_vars

(***************************************************************************)
(* Properties of the rules.                                                *)
(***************************************************************************)
Keys(m) == DOMAIN m

Rule(r, m) == ApplyRule(r, m, date, combined_history)

\* The history meals at most n_days before or after the date.
Near(n_days) ==
    {combined_history[h] :
        h \in {x \in DOMAIN combined_history :
                  date - n_days <= x /\ x <= date + n_days}}

Reverse(order) == [i \in 1..Len(order) |-> order[Len(order) + 1 - i]]
Rotate(order, k) ==
    [i \in 1..Len(order) |-> order[((i + k - 1) % Len(order)) + 1]]

HistoryRules ==
    {"not_consecutive_same_protein", "not_within_seven_days",
     "not_non_favourite_within_fourteen_days", "not_pasta_within_five_days",
     "not_fish_within_seven_days", "not_lasagne_and_moussaka_within_seven_days"}

WeekdayRuleOrder ==
    <<"force_sunday_roast", "not_roast_on_non_sunday",
      "not_time_consuming_on_weekend">>

\* C1: each rule returns a mapping whose keys are keys of its input and whose
\* values are the input's values, and the running candidates are always
\* entries of the initial candidates.
C1_MonotonicNarrowing ==
    /\ \A r \in Rules :
          LET out == Rule(r, meals)
          IN  /\ Keys(out) \subseteq Keys(meals)
              /\ \A n \in Keys(out) : out[n] = meals[n]
    /\ Keys(meals) \subseteq Keys(CatalogMeals)
    /\ \A n \in Keys(meals) : meals[n] = CatalogMeals[n]

\* C1 witness: rules have narrowed the candidates to some of the catalog.
C1_Witness ==
    /\ pc = "idle"
    /\ Keys(meals) # Keys(CatalogMeals)
    /\ Keys(meals) # {}
    /\ \E r \in Rules : Keys(Rule(r, meals)) # Keys(meals)

\* C2: any two rules applied in either order leave the same keys, and the
\* nine rules threaded in source order, in reverse order and in every
\* rotation of the source order leave the same keys.
C2_OrderIndependence ==
    /\ \A i \in 1..Len(RuleOrder) : \A j \in (i + 1)..Len(RuleOrder) :
          Keys(Rule(RuleOrder[i], Rule(RuleOrder[j], meals)))
              = Keys(Rule(RuleOrder[j], Rule(RuleOrder[i], meals)))
    /\ LET final == Keys(Thread(RuleOrder, meals, date, combined_history))
       IN  /\ Keys(Thread(Reverse(RuleOrder), meals, date, combined_history))
                  = final
           /\ \A k \in 1..(Len(RuleOrder) - 1) :
                  Keys(Thread(Rotate(RuleOrder, k), meals, date,
                              combined_history)) = final

\* C2 witness: on a Sunday with the roast eaten within seven days, the
\* candidates are what not_within_seven_days and force_sunday_roast leave.
C2_Witness ==
    /\ pc = "idle"
    /\ weekday(date) = 6
    /\ "Roast Chicken" \in Near(7)
    /\ meals = Rule("force_sunday_roast",
                    Rule("not_within_seven_days", CatalogMeals))
    /\ Keys(meals) = {}

\* C3: a rule applied to its own result returns that result.
C3_Idempotence ==
    \A r \in Rules : Rule(r, Rule(r, meals)) = Rule(r, meals)

\* C3 witness: the pasta rule has removed the pasta dishes of the catalog.
C3_Witness ==
    /\ pc = "idle"
    /\ \E x \in Near(5) : is_pasta(x)
    /\ meals = Rule("not_pasta_within_five_days", CatalogMeals)
    /\ Keys(meals) = {n \in Names : ~is_pasta(n)}

\* C4: on a Sunday force_sunday_roast keeps exactly the roasts and
\* not_roast_on_non_sunday changes nothing, on any other day the reverse,
\* and both rules in either order leave the roasts on a Sunday and the
\* other candidates on any other day.
C4_RoastPolicies ==
    LET forced == Rule("force_sunday_roast", meals)
        barred == Rule("not_roast_on_non_sunday", meals)
        roasts == {n \in Keys(meals) : is_roast(n)}
        others == {n \in Keys(meals) : ~is_roast(n)}
        expected == IF weekday(date) = 6 THEN roasts ELSE others
    IN  /\ weekday(date) = 6 => barred = meals /\ Keys(forced) = roasts
        /\ weekday(date) # 6 => forced = meals /\ Keys(barred) = others
        /\ Keys(Rule("force_sunday_roast", barred)) = expected
        /\ Keys(Rule("not_roast_on_non_sunday", forced)) = expected

\* C4 witness: a Sunday on which both roast rules have left the roast only.
C4_Witness ==
    /\ pc = "idle"
    /\ weekday(date) = 6
    /\ meals = Rule("not_roast_on_non_sunday",
                    Rule("force_sunday_roast", CatalogMeals))
    /\ Keys(meals) = {"Roast Chicken"}

\* C5: not_consecutive_same_protein removes a candidate exactly when it has
\* a protein and a history meal at most one day away has that protein.
C5_SameProtein ==
    LET out == Rule("not_consecutive_same_protein", meals)
    IN  \A n \in Keys(meals) :
            n \notin Keys(out)
                <=> /\ get_protein(n) # None
                    /\ \E x \in Near(1) : get_protein(x) = get_protein(n)

\* C5 witness: a chicken meal the day before and a meal without protein the
\* day after; the rule has removed the chicken candidates and kept the beef
\* candidate and the candidate without protein.
C5_Witness ==
    /\ pc = "idle"
    /\ date - 1 \in DOMAIN combined_history
    /\ date + 1 \in DOMAIN combined_history
    /\ combined_history[date - 1] = "Roast Chicken"
    /\ combined_history[date + 1] = "Spaghetti"
    /\ meals = Rule("not_consecutive_same_protein", CatalogMeals)
    /\ "Chicken Curry" \notin Keys(meals)
    /\ "Lasagne" \in Keys(meals)
    /\ "Spaghetti" \in Keys(meals)

\* C6: with no history entry within 14 days of the date, the six history
\* rules keep every key, and the nine rules leave what the three weekday
\* rules leave.
C6_NoHistoryInWindow ==
    Near(14) = {} =>
        /\ \A r \in HistoryRules : Keys(Rule(r, meals)) = Keys(meals)
        /\ Thread(RuleOrder, meals, date, combined_history)
               = Thread(WeekdayRuleOrder, meals, date, combined_history)

\* C6 witness: the history has entries, all more than 14 days away, and the
\* candidates are what the weekday rules leave of the catalog.
C6_Witness ==
    /\ pc = "idle"
    /\ DOMAIN combined_history # {}
    /\ Near(14) = {}
    /\ "Fish Pie" \in {combined_history[h] : h \in DOMAIN combined_history}
    /\ meals = Thread(RuleOrder, CatalogMeals, date, combined_history)
    /\ Keys(meals) # Keys(CatalogMeals)
    /\ Keys(meals) # {}

\* C7: the Lasagne/Moussaka rule removes Lasagne exactly when Moussaka is in
\* the 7-day window, Moussaka exactly when Lasagne is, and nothing else.
C7_LasagneMoussaka ==
    LET out == Rule("not_lasagne_and_moussaka_within_seven_days", meals)
    IN  \A n \in Keys(meals) :
            n \notin Keys(out)
                <=> \/ n = "Lasagne" /\ "Moussaka" \in Near(7)
                    \/ n = "Moussaka" /\ "Lasagne" \in Near(7)

\* C7 witness: both names are in the window and the rule has removed both.
C7_Witness ==
    /\ pc = "idle"
    /\ "Lasagne" \in Near(7)
    /\ "Moussaka" \in Near(7)
    /\ meals = Rule("not_lasagne_and_moussaka_within_seven_days", CatalogMeals)
    /\ Keys(meals) = Names \ {"Lasagne", "Moussaka"}

\* C8: the fourteen-day rule removes exactly the non-favourites named in the
\* 14-day window, the seven-day rule exactly the candidates named in the
\* 7-day window; after both, a favourite is left iff it is not named within
\* 7 days and a non-favourite iff it is not named within 14 days.
C8_FavouriteExemption ==
    LET fourteen == Rule("not_non_favourite_within_fourteen_days", meals)
        seven == Rule("not_within_seven_days", meals)
        both == Rule("not_within_seven_days", fourteen)
        both_reversed == Rule("not_non_favourite_within_fourteen_days", seven)
    IN  \A n \in Keys(meals) :
            /\ n \notin Keys(fourteen) <=> ~is_favourite(n) /\ n \in Near(14)
            /\ n \notin Keys(seven) <=> n \in Near(7)
            /\ n \in Keys(both)
                   <=> IF is_favourite(n) THEN n \notin Near(7)
                                          ELSE n \notin Near(14)
            /\ Keys(both_reversed) = Keys(both)

\* C8 witness: a favourite and a non-favourite were both eaten 8 to 14 days
\* away; the two rules have kept the favourite and removed the other.
C8_Witness ==
    /\ pc = "idle"
    /\ Near(7) = {}
    /\ Near(14) = {"Moussaka", "Lasagne"}
    /\ meals = Rule("not_within_seven_days",
                    Rule("not_non_favourite_within_fourteen_days", CatalogMeals))
    /\ Keys(meals) = Names \ {"Lasagne"}

(***************************************************************************)
(* Properties of the remove-dates script.                                  *)
(***************************************************************************)
PreviousDates == {x \in DOMAIN project_diary : x < today}

\* C9: once the window is computed, exactly
\* min(number of previous dates, MAX_PRINTED_PREVIOUS_DIARY_ENTRIES) previous
\* dates are on or after min_printed_date.
C9_MinPrintedDate ==
    (pc = "prompt") =>
        Cardinality({x \in PreviousDates : x >= Value(min_printed_date)})
            = Min(Cardinality(PreviousDates), MAX_PRINTED_PREVIOUS_DIARY_ENTRIES)

\* C10: the project diary changes only in the step that writes it; that step
\* follows an input that is not None, removes exactly the entered dates, all
\* of them dates of the window, and keeps every entry outside the window.
C10_DiaryFrame ==
    [][IF pc = "entered" /\ pc' = "done"
       THEN /\ dates_to_remove # Nothing
            /\ \A d \in Value(dates_to_remove) :
                  /\ d \in DOMAIN project_diary
                  /\ Value(min_printed_date) <= d
                  /\ max_printed_date # Nothing => d <= Value(max_printed_date)
            /\ DOMAIN project_diary'
                   = (DOMAIN project_diary) \ Value(dates_to_remove)
            /\ \A d \in DOMAIN project_diary' :
                   project_diary'[d] = project_diary[d]
            /\ \A d \in DOMAIN project_diary :
                   (\/ d < Value(min_printed_date)
                    \/ max_printed_date # Nothing /\ d > Value(max_printed_date))
                       => d \in DOMAIN project_diary'
       ELSE /\ project_diary' = project_diary
            /\ (pc = "entered" /\ dates_to_remove = Nothing) => pc' = "exited"]_vars

\* C10 witness: two entered dates have been removed from a diary that has
\* entries before and after the printed window.
C10_Witness ==
    /\ pc = "done"
    /\ Cardinality(Value(dates_to_remove)) = 2
    /\ max_printed_date # Nothing
    /\ \E d \in DOMAIN project_diary : d < Value(min_printed_date)
    /\ \E d \in DOMAIN project_diary : d > Value(max_printed_date)
    /\ (DOMAIN project_diary) \cap Value(dates_to_remove) = {}
====
